---- MODULE Spec2Model ----
(***************************************************************************)
(* A model of the per-CPU preemptive coroutine scheduler: the key packing  *)
(* of task_collection.rs, the waker page bitmaps of waker_page.rs, the     *)
(* task collection with its resumable cursor (a generator), the executor   *)
(* loop of executor.rs and the runtime loop, spawn, sched_yield and        *)
(* handle_timeout of runtime.rs.                                           *)
(*                                                                         *)
(* One CPU is modelled, but for spawn (SpawnSpec: the CPUs of             *)
(* GLOBAL_RUNTIME, each in its own call) and for a waker page on its own   *)
(* (PageSpec).  A usize is a 64-bit word, written as the set of            *)
(* its one-bits, so that shifts lose the bits the hardware loses.          *)
(*                                                                         *)
(* A step is one stretch of code between two points where the CPU can be   *)
(* taken away or another context can be seen to act: take_task, the        *)
(* return of a poll, the lines after it, the lines under the runtime lock  *)
(* of the idle branch, and each stretch of run_until_idle between two      *)
(* switches.  The timer interrupt (handle_timeout) can arrive whenever an  *)
(* executor runs; a waker can be used by any context at any time.  The     *)
(* slab is the PinSlab of the crate unicycle: insert takes the entry freed *)
(* last or else a new one, and remove of a key that names no entry         *)
(* changes nothing.                                                        *)
(***************************************************************************)
EXTENDS Naturals, Integers, Sequences, FiniteSets, TLC

\* ------------------------------------------------------------- bounds
\* Heap allocations the allocator can hold at once: one per future spawned
\* (a slab entry is never given back) and one per executor stack alive.
\* An allocation beyond it fails, which is fatal.
HeapCapacity == 4

\* ---------------------------------------------------------- constants
WAKER_PAGE_SIZE == 64
PRIORITY_SHIFT == 58
MAX_PRIORITY == 32
DEFAULT_PRIORITY == 4
PAGE_INDEX_SHIFT == 6
WordBits == 64

\* ------------------------------------------------- 64-bit word algebra
BitPos == 0 .. (WordBits - 1)

\* Numbers the model computes with stay below 2^SmallBits.
SmallBits == 12

Pow2 == [b \in 0 .. SmallBits |-> IF b = 0 THEN 1 ELSE 2 ^ b]

\* The word of a small natural number.
ToWord(n) == {b \in 0 .. (SmallBits - 1) : (n \div Pow2[b]) % 2 = 1}

RECURSIVE ToNat(_)
\* The number a word with no bit at SmallBits or above stands for.
ToNat(w) == IF w = {} THEN 0
            ELSE LET b == CHOOSE x \in w : TRUE
                 IN  Pow2[b] + ToNat(w \ {b})

IsSmall(w) == \A b \in w : b < SmallBits

Shl(w, n) == {b + n : b \in {x \in w : x + n < WordBits}}
Shr(w, n) == {b - n : b \in {x \in w : x >= n}}
BitAnd(v, w) == v \cap w
BitOr(v, w) == v \cup w
BitNot(w) == BitPos \ w

\* --------------------------------------------------------------- keys
pack_key(priority, page_idx, subpage_idx) ==
    BitOr(BitOr(Shl(priority, PRIORITY_SHIFT), Shl(page_idx, PAGE_INDEX_SHIFT)),
          subpage_idx)

unpack_key(key) ==
    [priority    |-> Shr(key, PRIORITY_SHIFT),
     page_idx    |-> Shr(Shl(key, 5), 11),
     subpage_idx |-> BitAnd(key, ToWord(63))]

unmask_priority(key) == BitAnd(key, BitNot(Shl(ToWord(31), PRIORITY_SHIFT)))

\* --------------------------------------------------------- waker page
\* A page is its two bitmaps; a bitmap is the set of its one-bits.
NewPage == [notified |-> {}, dropped |-> {}]

\* An initialize that leaves the notified bit as it is.
initialize_unnotified(page, idx) ==
    [notified |-> page.notified, dropped |-> page.dropped \ {idx}]

initialize(page, idx) ==
    [notified |-> page.notified \cup {idx}, dropped |-> page.dropped \ {idx}]

mark_dropped(page, idx) == [page EXCEPT !.dropped = @ \cup {idx}]

\* A notify that loses the wake.
notify_lost(page, offset) == page

notify(page, offset) == [page EXCEPT !.notified = @ \cup {offset}]

\* A take_notified that reads notified and leaves it as it is.
take_notified_keeps(page) ==
    [page |-> page,
     bits |-> page.notified \ page.dropped]

\* swap(0) of notified, then the mask by the dropped bits loaded after it.
take_notified(page) ==
    [page |-> [page EXCEPT !.notified = {}],
     bits |-> page.notified \ page.dropped]

take_dropped(page) ==
    [page |-> [page EXCEPT !.dropped = {}],
     bits |-> page.dropped]

clear(page, idx) ==
    [notified |-> page.notified \ {idx}, dropped |-> page.dropped \ {idx}]

\* ---------------------------------------------------------- pin slab
\* The slab of pinned futures: the occupied indices and the free list
\* (last freed first); an index never handed out yet is the slab's length.
NewSlab == [used |-> {}, free |-> <<>>]

SlabLen(slab) == Cardinality(slab.used) + Len(slab.free)

SlabNextKey(slab) == IF slab.free # <<>> THEN Head(slab.free) ELSE SlabLen(slab)

SlabInsert(slab) ==
    [used |-> slab.used \cup {SlabNextKey(slab)},
     free |-> IF slab.free # <<>> THEN Tail(slab.free) ELSE <<>>]

\* remove(key) of a key (a word) that names no occupied entry changes nothing.
SlabRemove(slab, key) ==
    IF IsSmall(key) /\ ToNat(key) \in slab.used
    THEN [used |-> slab.used \ {ToNat(key)}, free |-> <<ToNat(key)>> \o slab.free]
    ELSE slab

\* ------------------------------------------------- future collection
\* fc = [slab, pages]: the collection of the one operational priority.
RECURSIVE GrowPages(_, _)
GrowPages(pages, key) ==
    IF key >= Len(pages) * WAKER_PAGE_SIZE
    THEN GrowPages(Append(pages, NewPage), key)
    ELSE pages

FcInsert(fc) ==
    LET key   == SlabNextKey(fc.slab)
        pages == GrowPages(fc.pages, key)
        u     == unpack_key(ToWord(key))
        pi    == ToNat(u.page_idx) + 1
    IN  [slab  |-> SlabInsert(fc.slab),
         pages |-> [pages EXCEPT ![pi] = initialize(@, ToNat(u.subpage_idx))],
         key   |-> key]

\* priority_add_task(DEFAULT_PRIORITY, future): insert, and the key returned,
\* `key | (priority << PRIORITY_SHIFT)`.
priority_add_task(fc) ==
    LET r == FcInsert(fc)
    IN  [slab  |-> r.slab,
         pages |-> r.pages,
         key   |-> BitOr(ToWord(r.key), Shl(ToWord(DEFAULT_PRIORITY), PRIORITY_SHIFT))]

\* remove(key) as remove_task would call it: with the priority bits masked
\* off the key, so that the slab entry is freed.
FcRemove_unmasked(fc, key) ==
    LET u  == unpack_key(key)
        pi == ToNat(u.page_idx) + 1
    IN  [slab  |-> SlabRemove(fc.slab, unmask_priority(key)),
         pages |-> [fc.pages EXCEPT ![pi] = clear(@, ToNat(u.subpage_idx))]]

\* remove(key): the page bits of the key's slot are cleared, and the slab is
\* asked to remove the key as it was passed.
FcRemove(fc, key) ==
    LET u  == unpack_key(key)
        pi == ToNat(u.page_idx) + 1
    IN  [slab  |-> SlabRemove(fc.slab, key),
         pages |-> [fc.pages EXCEPT ![pi] = clear(@, ToNat(u.subpage_idx))]]

\* ---------------------------------------------------- task collection
Fc(s, p) == [slab |-> s, pages |-> p]

TaskKey(page_idx, subpage_idx) ==
    pack_key(ToWord(DEFAULT_PRIORITY), ToWord(page_idx), ToWord(subpage_idx))

\* A bit iterator that goes from the highest bit down.
MaxBit(bits) == CHOOSE b \in bits : \A c \in bits : b >= c

MinBit(bits) == CHOOSE b \in bits : \A c \in bits : b <= c

\* The cursor (a generator), suspended at one of its yields.  pc: "start"
\* (never resumed), "yielded" (at `yield found_key`) or "none" (at `yield
\* None`); page_idx, npages, notified, dropped and found are its locals:
\* the page being walked, the page count read when the walk began, the bits
\* of the page's notified snapshot not yet yielded, its dropped snapshot,
\* and found_key.is_some().
GenAt(pc, page_idx, npages, notified, dropped, found) ==
    [pc |-> pc, page_idx |-> page_idx, npages |-> npages,
     notified |-> notified, dropped |-> dropped, found |-> found]

GenStart == GenAt("start", 0, 0, {}, {}, FALSE)

NoKey == [some |-> FALSE, key |-> {}]
SomeKey(k) == [some |-> TRUE, key |-> k]

\* The loop over a page's dropped snapshot: remove(key) of each slot.
RECURSIVE ReapDropped(_, _, _)
ReapDropped(fc, page_idx, bits) ==
    IF bits = {} THEN fc
    ELSE LET b == MinBit(bits)
         IN  ReapDropped(FcRemove(fc, TaskKey(page_idx, b)), page_idx, bits \ {b})

\* The walk from page p (0-based) on, to the generator's next yield.
RECURSIVE SweepFrom(_, _, _, _)
SweepFrom(fc, p, n, found) ==
    IF p >= n
    THEN IF found
         THEN SweepFrom(fc, 0, Len(fc.pages), FALSE)
         ELSE [gen |-> GenAt("none", 0, 0, {}, {}, FALSE), fc |-> fc, out |-> NoKey]
    ELSE LET tn  == take_notified(fc.pages[p + 1])
             td  == take_dropped(tn.page)
             fc1 == [fc EXCEPT !.pages[p + 1] = td.page]
         IN  IF tn.bits # {}
             THEN LET b == MinBit(tn.bits)
                  IN  [gen |-> GenAt("yielded", p, n, tn.bits \ {b}, td.bits, TRUE),
                       fc  |-> fc1,
                       out |-> SomeKey(TaskKey(p, b))]
             ELSE SweepFrom(ReapDropped(fc1, p, td.bits), p + 1, n, found)

\* A generator that yields None as soon as a snapshot is used up.
GenResume_none_early(g, fc) ==
    IF g.pc = "yielded"
    THEN IF g.notified # {}
         THEN LET b == MinBit(g.notified)
              IN  [gen |-> [g EXCEPT !.notified = @ \ {b}],
                   fc  |-> fc,
                   out |-> SomeKey(TaskKey(g.page_idx, b))]
         ELSE [gen |-> GenAt("none", 0, 0, {}, {}, FALSE),
               fc  |-> ReapDropped(fc, g.page_idx, g.dropped),
               out |-> NoKey]
    ELSE SweepFrom(fc, 0, Len(fc.pages), FALSE)

\* A generator that goes back to page 0 whenever a snapshot is used up.
GenResume_restarts(g, fc) ==
    IF g.pc = "yielded"
    THEN IF g.notified # {}
         THEN LET b == MinBit(g.notified)
              IN  [gen |-> [g EXCEPT !.notified = @ \ {b}],
                   fc  |-> fc,
                   out |-> SomeKey(TaskKey(g.page_idx, b))]
         ELSE LET fc1 == ReapDropped(fc, g.page_idx, g.dropped)
              IN  SweepFrom(fc1, 0, Len(fc1.pages), FALSE)
    ELSE SweepFrom(fc, 0, Len(fc.pages), FALSE)

\* resume(()) of the generator.
GenResume(g, fc) ==
    IF g.pc = "yielded"
    THEN IF g.notified # {}
         THEN LET b == MinBit(g.notified)
              IN  [gen |-> [g EXCEPT !.notified = @ \ {b}],
                   fc  |-> fc,
                   out |-> SomeKey(TaskKey(g.page_idx, b))]
         ELSE SweepFrom(ReapDropped(fc, g.page_idx, g.dropped),
                        g.page_idx + 1, g.npages, TRUE)
    ELSE SweepFrom(fc, 0, Len(fc.pages), FALSE)

\* The slab index take_task looks up for a yielded key.
SlotOf(key) == ToNat(unmask_priority(key))

\* ------------------------------------------------------------ state
VARIABLES
    test_mode,   \* cfg!(feature = "baremetal-test")
    slab,        \* FutureCollection.slab of DEFAULT_PRIORITY
    pages,       \* FutureCollection.pages of DEFAULT_PRIORITY
    task_num,    \* TaskCollection.task_num
    gen,         \* TaskCollection.generator, suspended at a yield
    ex,          \* the executors alive, by handle
    strong,      \* ExecutorRuntime.strong_executor
    weak,        \* ExecutorRuntime.weak_executors
    current,     \* ExecutorRuntime.current_executor (0: None)
    rtpc,        \* where run_until_idle stands
    rtidx,       \* idx of the weak executor loop
    running,     \* the stack the CPU runs on (0: the runtime's)
    lock,        \* holder of GLOBAL_RUNTIME[cpu] (0: free)
    cpu,         \* "run"; "spin": spinning on the runtime lock its own context holds; "panic"
    ready,       \* slots whose future has returned Ready
    wakers,      \* slots a waker was made for (clones may be held anywhere)
    pending,     \* live slots spawned or woken since their last poll began
    spawned,     \* spawn calls so far
    keyio,       \* a key round trip: what was packed, what unpacking gave
    sp,          \* spawn step by step: each CPU's interrupt enable, call and runtime
    wp,          \* a waker page shared by notifiers and one take_notified
    cur          \* the cursor on its own: its last result, the deliveries owed

vars == <<test_mode, slab, pages, task_num, gen, ex, strong, weak, current,
          rtpc, rtidx, running, lock, cpu, ready, wakers, pending, spawned,
          keyio, sp, wp, cur>>

colvars == <<slab, pages, task_num, gen>>
rtvars == <<ex, strong, weak, current, rtpc, rtidx, running, lock, cpu>>
histvars == <<ready, wakers, pending, spawned, keyio, sp, wp, cur>>

ExecIds == 1 .. (HeapCapacity - 1)

\* An executor: state (UNUSED, WEAK, KILLED), task_id, and where its stack
\* stands in run(): "entry" (never run), "take" (line 100), "poll" (inside
\* task.poll, line 110), "yield" (inside a sched_yield the poll called), "polled" (poll has returned ret, task_id not yet
\* cleared), "idle_locked" (lines 127-130, runtime lock held), "dead" (run
\* returned).  slot is the slab index of the task taken.
NoExec == [state |-> "FREE", pc |-> "free", task_id |-> 0, slot |-> 0, ret |-> "-"]
NewExec == [state |-> "UNUSED", pc |-> "entry", task_id |-> 0, slot |-> 0, ret |-> "-"]

\* task.id() of the task in a slot; the runtime takes task_id # 0 to mean
\* that a poll is going on, so an id is never 0.
TaskId(slot) == slot + 1

is_running_future(e) == ex[e].task_id # 0
killed(e) == ex[e].state = "KILLED"

PageOf(slot) == (slot \div WAKER_PAGE_SIZE) + 1
BitOf(slot) == slot % WAKER_PAGE_SIZE

\* Slots parked in the slab by InitParked: futures polled once, Pending,
\* whose wakers nobody kept.
Parked == WAKER_PAGE_SIZE - 1

\* The runtimes of GLOBAL_RUNTIME: one per CPU.
NumCpus == 5
Cpus == 0 .. (NumCpus - 1)

\* A CPU that is in no call of spawn; a runtime as ExecutorRuntime::new
\* leaves its task collection.  call[c].pc is where CPU c stands in spawn:
\* "idle" (not in it), "saved" (after intr_get), "off" (before spawn_task),
\* "added" (after it); enable is the macro's local; before and base are
\* the interrupt enable and the task_num of the CPU's runtime at the call.
NoCall == [pc |-> "idle", enable |-> FALSE, before |-> FALSE, base |-> 0]
NewRuntime == [slab |-> NewSlab, pages |-> <<>>, task_num |-> 0]
NoSpawns ==
    [intr |-> [c \in Cpus |-> FALSE],
     call |-> [c \in Cpus |-> NoCall],
     rt   |-> [c \in Cpus |-> NewRuntime]]

\* A page nobody has notified, and no take_notified in progress.  pc is
\* where take_notified stands: "idle" or "swapped" (between the swap and the
\* load of dropped); local is its local `notified`, got the value it
\* returned last; since is the set of bits notified since the last swap,
\* before the set notified between the two swaps before that.
NoWakes ==
    [page |-> NewPage, pc |-> "idle", local |-> {}, got |-> {},
     before |-> {}, since |-> {}]

\* The cursor before its first resume.  last is what take_task returned
\* last; owed is the set of slots with a notification no take_task has
\* delivered yet, more the set of those with two: one the cursor holds in
\* its snapshot and one that was set in notified after the snapshot.
NoCursor == [last |-> [some |-> FALSE, key |-> {}], owed |-> {}, more |-> {}]

NoKeyIo == [p |-> {}, pg |-> {}, sl |-> {}, done |-> FALSE, out |-> <<>>]

InitCommon ==
    /\ test_mode \in BOOLEAN
    /\ gen = GenStart
    /\ ex = [h \in ExecIds |-> IF h = 1 THEN NewExec ELSE NoExec]
    /\ strong = 1
    /\ weak = <<>>
    /\ current = 0
    /\ rtpc = "boot"
    /\ rtidx = 0
    /\ running = 0
    /\ lock = 0
    /\ cpu = "run"
    /\ ready = {}
    /\ wakers = {}
    /\ pending = {}
    /\ spawned = 0

\* The state after construction: ExecutorRuntime::new.
InitFresh ==
    /\ InitCommon
    /\ keyio = NoKeyIo
    /\ sp = NoSpawns
    /\ wp = NoWakes
    /\ cur = NoCursor
    /\ slab = NewSlab
    /\ pages = <<>>
    /\ task_num = 0

\* A collection whose first page is full but for its last slot.
InitParked ==
    /\ InitCommon
    /\ keyio = NoKeyIo
    /\ sp = NoSpawns
    /\ wp = NoWakes
    /\ cur = NoCursor
    /\ slab = [used |-> 0 .. (Parked - 1), free |-> <<>>]
    /\ pages = <<NewPage>>
    /\ task_num = Parked

\* The build without the feature baremetal-test, and the one with it.
Init == InitFresh /\ test_mode = FALSE
InitParkedPlain == InitParked /\ test_mode = FALSE
InitTest == InitFresh /\ test_mode = TRUE

\* Allocations held: the futures spawned and the executor stacks alive.
HeapUsed == spawned + Cardinality({h \in ExecIds : ex[h] # NoExec})

\* -------------------------------------------------------------- spawn
\* priority_add_task(DEFAULT_PRIORITY, future), under the runtime lock with
\* interrupts off (spawn -> spawn_task -> add_task).
Spawn ==
    /\ cpu = "run" /\ lock = 0
    /\ rtpc = "boot" \/ running # 0
    /\ HeapUsed < HeapCapacity
    /\ LET r == priority_add_task(Fc(slab, pages))
       IN  /\ slab' = r.slab
           /\ pages' = r.pages
           /\ task_num' = task_num + 1
           /\ pending' = pending \cup {ToNat(unmask_priority(r.key))}
    /\ spawned' = spawned + 1
    /\ UNCHANGED <<test_mode, gen, ready, wakers, keyio, sp, wp, cur>>
    /\ UNCHANGED rtvars

\* ----------------------------------------------------------- wakers
\* wake_by_ref on a waker (or a clone of it) made for a slot: notify,
\* whatever has become of the task.  An atomic fetch_or, from any context.
wake_by_ref(slot) ==
    pages' = [pages EXCEPT ![PageOf(slot)] = notify(@, BitOf(slot))]

\* drop_by_ref on the handle of a slot.
drop_by_ref(pgs, slot) ==
    [pgs EXCEPT ![PageOf(slot)] = mark_dropped(@, BitOf(slot))]

Wake(slot) ==
    /\ slot \in wakers
    /\ wake_by_ref(slot)
    /\ pending' = IF slot \in ready THEN pending ELSE pending \cup {slot}
    /\ UNCHANGED <<test_mode, slab, task_num, gen, ready, wakers, spawned,
                   keyio, sp, wp, cur>>
    /\ UNCHANGED rtvars

\* ---------------------------------------------------------- executor
\* switch(executor_cx, runtime_cx): the CPU goes on on the runtime's stack.
SwitchToRuntime == running' = 0

\* sched_yield(): with the lock taken and let go, switch to the runtime when
\* an executor is current.
sched_yield ==
    IF current # 0 THEN SwitchToRuntime ELSE running' = running

\* Executor::run, line 100: take_task, and what follows to the poll (lines
\* 104-110) or, on None, to the runtime lock of line 127.
TakeTask(e) ==
    /\ cpu = "run" /\ running = e /\ ex[e].pc = "take"
    /\ LET r    == GenResume(gen, Fc(slab, pages))
           slot == SlotOf(r.out.key)
       IN  /\ gen' = r.gen
           /\ slab' = r.fc.slab
           /\ pages' = r.fc.pages
           /\ IF ~r.out.some
              THEN /\ ex' = [ex EXCEPT ![e] = [@ EXCEPT !.pc = "idle_locked"]]
                   /\ lock' = e
                   /\ UNCHANGED <<wakers, pending, cpu>>
              ELSE IF slot \notin r.fc.slab.used
              THEN \* get_pin_mut(..).unwrap() of a vacant entry
                   /\ cpu' = "panic"
                   /\ UNCHANGED <<ex, lock, wakers, pending>>
              ELSE /\ ex' = [ex EXCEPT ![e] = [@ EXCEPT !.pc = "poll",
                                                        !.task_id = TaskId(slot),
                                                        !.slot = slot]]
                   /\ wakers' = wakers \cup {slot}
                   /\ pending' = pending \ {slot}
                   /\ UNCHANGED <<lock, cpu>>
    /\ UNCHANGED <<test_mode, task_num, strong, weak, current, rtpc, rtidx,
                   running, ready, spawned, keyio, sp, wp, cur>>

\* task.poll(cx) returns ret.
PollReturn(e, ret) ==
    /\ cpu = "run" /\ running = e /\ ex[e].pc = "poll"
    /\ ex' = [ex EXCEPT ![e] = [@ EXCEPT !.pc = "polled", !.ret = ret]]
    /\ ready' = IF ret = "Ready" THEN ready \cup {ex[e].slot} ELSE ready
    /\ pending' = IF ret = "Ready" THEN pending \ {ex[e].slot} ELSE pending
    /\ UNCHANGED <<test_mode, strong, weak, current, rtpc, rtidx, running,
                   lock, cpu, wakers, spawned, keyio, sp, wp, cur>>
    /\ UNCHANGED colvars

\* sched_yield() called by the code of a task, inside its poll (task_id is
\* the task's): the executor's stack stays inside sched_yield.
YieldInPoll(e) ==
    /\ cpu = "run" /\ running = e /\ ex[e].pc = "poll"
    /\ lock = 0
    /\ sched_yield
    /\ ex' = [ex EXCEPT ![e].pc = IF current # 0 THEN "yield" ELSE @]
    /\ UNCHANGED <<test_mode, strong, weak, current, rtpc, rtidx, lock, cpu>>
    /\ UNCHANGED colvars
    /\ UNCHANGED histvars

\* The executor is switched to again: sched_yield returns into the poll.
YieldReturn(e) ==
    /\ cpu = "run" /\ running = e /\ ex[e].pc = "yield"
    /\ ex' = [ex EXCEPT ![e].pc = "poll"]
    /\ UNCHANGED <<test_mode, strong, weak, current, rtpc, rtidx, running,
                   lock, cpu>>
    /\ UNCHANGED colvars
    /\ UNCHANGED histvars

\* The lines after the poll without the test of lines 122-125: a WEAK
\* executor goes round the loop like any other.
AfterPoll_loops(e) ==
    /\ cpu = "run" /\ running = e /\ ex[e].pc = "polled"
    /\ pages' = IF ex[e].ret = "Ready" THEN drop_by_ref(pages, ex[e].slot) ELSE pages
    /\ ex' = [ex EXCEPT ![e] = [@ EXCEPT !.pc = "take", !.task_id = 0,
                                          !.slot = 0, !.ret = "-"]]
    /\ UNCHANGED <<test_mode, slab, task_num, gen, strong, weak, current, rtpc,
                   rtidx, running, lock, cpu>>
    /\ UNCHANGED histvars

\* Lines 111-125: task_id = 0, drop_by_ref on Ready, and a WEAK executor is
\* KILLED and returns to run_executor, which switches to the runtime.
AfterPoll(e) ==
    /\ cpu = "run" /\ running = e /\ ex[e].pc = "polled"
    /\ pages' = IF ex[e].ret = "Ready" THEN drop_by_ref(pages, ex[e].slot) ELSE pages
    /\ IF ex[e].state = "WEAK"
       THEN /\ ex' = [ex EXCEPT ![e] = [state |-> "KILLED", pc |-> "dead",
                                         task_id |-> 0, slot |-> 0, ret |-> "-"]]
            /\ SwitchToRuntime
       ELSE /\ ex' = [ex EXCEPT ![e] = [@ EXCEPT !.pc = "take", !.task_id = 0,
                                                  !.slot = 0, !.ret = "-"]]
            /\ running' = running
    /\ UNCHANGED <<test_mode, slab, task_num, gen, strong, weak, current, rtpc,
                   rtidx, lock, cpu>>
    /\ UNCHANGED histvars

\* An idle branch that yields to the runtime whatever it read.
IdleRelease_yields(e) ==
    /\ cpu = "run" /\ running = e /\ ex[e].pc = "idle_locked"
    /\ lock' = 0
    /\ ex' = [ex EXCEPT ![e] = [@ EXCEPT !.pc = "take"]]
    /\ sched_yield
    /\ UNCHANGED <<test_mode, strong, weak, current, rtpc, rtidx, cpu>>
    /\ UNCHANGED colvars
    /\ UNCHANGED histvars

\* Lines 130-141: the lock is let go; then sched_yield or wait_for_interrupt.
IdleRelease(e) ==
    /\ cpu = "run" /\ running = e /\ ex[e].pc = "idle_locked"
    /\ lock' = 0
    /\ ex' = [ex EXCEPT ![e] = [@ EXCEPT !.pc = "take"]]
    /\ IF (test_mode /\ task_num = 0) \/ Len(weak) # 0
       THEN sched_yield
       ELSE running' = running
    /\ UNCHANGED <<test_mode, strong, weak, current, rtpc, rtidx, cpu>>
    /\ UNCHANGED colvars
    /\ UNCHANGED histvars

\* A handle_timeout that queues the task it preempts again, as a yield would.
handle_timeout_requeue ==
    /\ cpu = "run"
    /\ running # 0 \/ rtpc = "boot"
    /\ IF lock # 0
       THEN cpu' = "spin" /\ running' = running
       ELSE cpu' = cpu /\ sched_yield
    /\ pages' = IF running # 0 /\ lock = 0 /\ is_running_future(running)
                THEN [pages EXCEPT ![PageOf(ex[running].slot)] =
                                        notify(@, BitOf(ex[running].slot))]
                ELSE pages
    /\ UNCHANGED <<test_mode, ex, strong, weak, current, rtpc, rtidx, lock>>
    /\ UNCHANGED <<slab, task_num, gen>>
    /\ UNCHANGED histvars

\* handle_timeout(), called by the timer interrupt handler on the stack of
\* the context it interrupted: sched_yield with interrupts off.  It first
\* takes the runtime lock, a spin lock, which the interrupted context may hold.
handle_timeout ==
    /\ cpu = "run"
    /\ running # 0 \/ rtpc = "boot"
    /\ IF lock # 0
       THEN cpu' = "spin" /\ running' = running
       ELSE cpu' = cpu /\ sched_yield
    /\ UNCHANGED <<test_mode, ex, strong, weak, current, rtpc, rtidx, lock>>
    /\ UNCHANGED colvars
    /\ UNCHANGED histvars

\* ----------------------------------------------------------- runtime
\* switch(runtime_cx, executor_cx) with current_executor set: the CPU goes
\* on on the executor's stack; one never run begins run() at its top.
Started(exf, e) == [exf EXCEPT ![e].pc = IF @ = "entry" THEN "take" ELSE @]

FreeHandles(exf) == {h \in ExecIds : exf[h] = NoExec}

\* A retain that lets nothing go.
Retained_all(wk) == wk

\* retain(|executor| executor.is_some() && !executor.killed())
Retained(wk) == SelectSeq(wk, LAMBDA h : ~killed(h))

\* The executors the retain lets go of are dropped with their stacks.
Released(exf, wk) ==
    [h \in ExecIds |-> IF (\E i \in 1 .. Len(wk) : wk[i] = h) /\ killed(h)
                       THEN NoExec ELSE exf[h]]

\* A downgrade that makes no new executor: the old one stays the strong one.
downgrade_keeps_strong(h) ==
    /\ weak' = Append(weak, strong)
    /\ strong' = strong
    /\ ex' = [ex EXCEPT ![strong].state = "WEAK"]

\* A downgrade that leaves out mark_weak: the old strong executor joins the
\* weak list unmarked.
downgrade_unmarked(h) ==
    /\ weak' = Append(weak, strong)
    /\ strong' = h
    /\ ex' = Started([ex EXCEPT ![h] = NewExec], h)

\* downgrade_strong_executor: the strong executor, marked WEAK, joins the
\* weak list and a new executor h becomes the strong one.
downgrade_strong_executor(h) ==
    /\ weak' = Append(weak, strong)
    /\ strong' = h
    /\ ex' = Started([ex EXCEPT ![strong].state = "WEAK", ![h] = NewExec], h)

\* The next weak executor of the loop of lines 175-189 after index i (0: none).
NextWeak(wk, i) ==
    IF \E j \in (i + 1) .. Len(wk) : ~killed(wk[j])
    THEN CHOOSE j \in (i + 1) .. Len(wk) :
            /\ ~killed(wk[j])
            /\ \A k \in (i + 1) .. (j - 1) : killed(wk[k])
    ELSE 0

\* run_until_idle is entered: lines 143-151, the strong executor is switched to.
RunUntilIdle ==
    /\ cpu = "run" /\ running = 0 /\ rtpc = "boot"
    /\ current' = strong
    /\ running' = strong
    /\ ex' = Started(ex, strong)
    /\ rtpc' = "strong_wait"
    /\ UNCHANGED <<test_mode, strong, weak, rtidx, lock, cpu>>
    /\ UNCHANGED colvars
    /\ UNCHANGED histvars

\* A run_until_idle that returns when there is no task, in any build.
RtResumeStrong_any_build ==
    /\ cpu = "run" /\ running = 0 /\ rtpc = "strong_wait"
    /\ task_num = 0
    /\ rtpc' = "returned"
    /\ current' = 0
    /\ UNCHANGED <<test_mode, ex, strong, weak, rtidx, running, lock, cpu>>
    /\ UNCHANGED colvars
    /\ UNCHANGED histvars

\* Control is back from the strong executor: lines 156-185 and, where the
\* loop goes round, lines 143-151.
RtResumeStrong ==
    /\ cpu = "run" /\ running = 0 /\ rtpc = "strong_wait"
    /\ IF test_mode /\ task_num = 0
       THEN /\ rtpc' = "returned"
            /\ current' = 0
            /\ UNCHANGED <<ex, strong, weak, rtidx, running, cpu>>
       ELSE IF is_running_future(strong)
       THEN IF HeapUsed >= HeapCapacity
            THEN \* Executor::new: allocate(STACK_LAYOUT).expect(..)
                 /\ cpu' = "panic"
                 /\ current' = 0
                 /\ UNCHANGED <<ex, strong, weak, rtpc, rtidx, running>>
            ELSE LET h == CHOOSE x \in FreeHandles(ex) : \A y \in FreeHandles(ex) : x <= y
                 IN  /\ downgrade_strong_executor(h)
                     /\ current' = h
                     /\ running' = h
                     /\ UNCHANGED <<rtpc, rtidx, cpu>>
       ELSE LET kept == Retained(weak)
            IN  /\ weak' = kept
                /\ IF kept = <<>>
                   THEN /\ current' = strong
                        /\ running' = strong
                        /\ UNCHANGED <<rtpc, rtidx>>
                   ELSE /\ current' = kept[1]
                        /\ running' = kept[1]
                        /\ rtidx' = 1
                        /\ rtpc' = "weak_wait"
                /\ ex' = Released(ex, weak)
                /\ UNCHANGED <<strong, cpu>>
    /\ UNCHANGED <<test_mode, lock>>
    /\ UNCHANGED colvars
    /\ UNCHANGED histvars

\* Control is back from a weak executor: lines 186-189, then the next weak
\* executor or, the loop over, the strong one (lines 143-151).
RtResumeWeak ==
    /\ cpu = "run" /\ running = 0 /\ rtpc = "weak_wait"
    /\ LET j == NextWeak(weak, rtidx)
       IN  IF j # 0
           THEN /\ current' = weak[j]
                /\ running' = weak[j]
                /\ rtidx' = j
                /\ rtpc' = rtpc
           ELSE /\ current' = strong
                /\ running' = strong
                /\ rtidx' = 0
                /\ rtpc' = "strong_wait"
    /\ UNCHANGED <<test_mode, ex, strong, weak, lock, cpu>>
    /\ UNCHANGED colvars
    /\ UNCHANGED histvars

\* ------------------------------------------------------ specification
Slots == 0 .. (Parked + HeapCapacity)

Next ==
    \/ Spawn
    \/ \E slot \in Slots : Wake(slot)
    \/ \E e \in ExecIds : TakeTask(e)
    \/ \E e \in ExecIds, ret \in {"Ready", "Pending"} : PollReturn(e, ret)
    \/ \E e \in ExecIds : AfterPoll(e)
    \/ \E e \in ExecIds : IdleRelease(e)
    \/ \E e \in ExecIds : YieldInPoll(e)
    \/ \E e \in ExecIds : YieldReturn(e)
    \/ handle_timeout
    \/ RunUntilIdle
    \/ RtResumeStrong
    \/ RtResumeWeak

Spec == Init /\ [][Next]_vars
TestSpec == InitTest /\ [][Next]_vars
\* Either build.
BuildsSpec == InitFresh /\ [][Next]_vars
\* A collection that starts with its first page all but full.
ParkedSpec == InitParkedPlain /\ [][Next]_vars

\* The test build when handle_timeout is never called.  The CPU keeps
\* executing the code it stands in: every poll returns, and an interrupt
\* ends every wait_for_interrupt.
QuietNext ==
    \/ Spawn
    \/ \E slot \in Slots : Wake(slot)
    \/ \E e \in ExecIds : TakeTask(e)
    \/ \E e \in ExecIds, ret \in {"Ready", "Pending"} : PollReturn(e, ret)
    \/ \E e \in ExecIds : AfterPoll(e)
    \/ \E e \in ExecIds : IdleRelease(e)
    \/ RunUntilIdle
    \/ RtResumeStrong

CpuStep ==
    \/ \E e \in ExecIds : TakeTask(e)
    \/ \E e \in ExecIds, ret \in {"Ready", "Pending"} : PollReturn(e, ret)
    \/ \E e \in ExecIds : AfterPoll(e)
    \/ \E e \in ExecIds : IdleRelease(e)
    \/ RunUntilIdle
    \/ RtResumeStrong

QuietTestSpec == InitTest /\ [][QuietNext]_vars /\ WF_vars(CpuStep)

\* The CPU keeps executing the code it stands in, whatever context that is,
\* while timer interrupts and wakes arrive as they will: every poll that
\* has the CPU returns in the end.
CpuRuns ==
    \/ CpuStep
    \/ \E e \in ExecIds : YieldReturn(e)
    \/ RtResumeWeak

FairSpec == Init /\ [][Next]_vars /\ WF_vars(CpuRuns)

\* --------------------------------------------------- keys, on their own
\* Page indices below 2^52 the round trip is tried on.
PageIdxSamples == {{}, {0}, {51}, {0, 51}, {1, 17, 50}, 0 .. 51}

KeyInit ==
    /\ InitCommon
    /\ test_mode = FALSE
    /\ slab = NewSlab
    /\ pages = <<>>
    /\ task_num = 0
    /\ sp = NoSpawns
    /\ wp = NoWakes
    /\ cur = NoCursor
    /\ \E p \in 0 .. (MAX_PRIORITY - 1), pg \in PageIdxSamples,
          sl \in 0 .. (WAKER_PAGE_SIZE - 1) :
            keyio = [p |-> ToWord(p), pg |-> pg, sl |-> ToWord(sl),
                     done |-> FALSE, out |-> <<>>]

\* unpack_key(pack_key(priority, page_idx, subpage_idx))
KeyRoundTrip ==
    /\ ~keyio.done
    /\ LET u == unpack_key(pack_key(keyio.p, keyio.pg, keyio.sl))
       IN  keyio' = [keyio EXCEPT !.done = TRUE,
                                  !.out = <<u.priority, u.page_idx, u.subpage_idx>>]
    /\ UNCHANGED <<test_mode, ready, wakers, pending, spawned, sp, wp, cur>>
    /\ UNCHANGED colvars
    /\ UNCHANGED rtvars

KeyNext == KeyRoundTrip

KeySpec == KeyInit /\ [][KeyNext]_vars

\* ------------------------------------------ spawn, on the CPUs it runs on
\* The CPUs are idle or in a call of spawn; each call is cut at the points
\* where another CPU can act.  The caller is not inside a stretch that
\* holds its runtime's lock (the guard of Spawn), so runtime.lock() is free.
mainvars == <<test_mode, ready, wakers, pending, spawned, keyio>>

\* Heap allocations held: the futures in the collections and those that
\* calls in progress have yet to add.
SpawnHeapUsed ==
    Cardinality({ck \in Cpus \X (1 .. HeapCapacity) : ck[2] <= sp.rt[ck[1]].task_num})
        + Cardinality({c \in Cpus : sp.call[c].pc \in {"saved", "off"}})

SpawnInit ==
    /\ InitCommon
    /\ test_mode = FALSE
    /\ slab = NewSlab
    /\ pages = <<>>
    /\ task_num = 0
    /\ keyio = NoKeyIo
    /\ wp = NoWakes
    /\ cur = NoCursor
    /\ \E i \in [Cpus -> BOOLEAN] : sp = [NoSpawns EXCEPT !.intr = i]

\* ExecutorRuntime::add_task -> TaskCollection::add_task.
rt_add_task(rt) ==
    LET r == FcInsert(Fc(rt.slab, rt.pages))
    IN  [slab |-> r.slab, pages |-> r.pages, task_num |-> rt.task_num + 1]

\* An exit of the macro that turns the interrupts on whatever it found.
intr_restore_on(enable, intr) == TRUE

\* The macro's exit: `if enable { intr_on() }`.
intr_restore(enable, intr) == IF enable THEN TRUE ELSE intr

\* spawn is entered on CPU c: `let enable = intr_get()`.
SpawnIntrGet(c) ==
    /\ sp.call[c].pc = "idle"
    /\ SpawnHeapUsed < HeapCapacity
    /\ sp' = [sp EXCEPT !.call[c] = [pc |-> "saved", enable |-> sp.intr[c],
                                     before |-> sp.intr[c],
                                     base |-> sp.rt[c].task_num]]
    /\ UNCHANGED <<mainvars, wp, cur>>
    /\ UNCHANGED colvars
    /\ UNCHANGED rtvars

\* `if enable { intr_off() }`
SpawnIntrOff(c) ==
    /\ sp.call[c].pc = "saved"
    /\ sp' = [sp EXCEPT !.call[c].pc = "off",
                        !.intr[c] = IF sp.call[c].enable THEN FALSE ELSE @]
    /\ UNCHANGED <<mainvars, wp, cur>>
    /\ UNCHANGED colvars
    /\ UNCHANGED rtvars

\* spawn_task(future, None, Some(cpu_id())):
\* GLOBAL_RUNTIME[cpu_id].lock().add_task(priority, future)
SpawnTask(c) ==
    /\ sp.call[c].pc = "off"
    /\ LET cpu_id == c
       IN  sp' = [sp EXCEPT !.call[c].pc = "added",
                            !.rt[cpu_id] = rt_add_task(@)]
    /\ UNCHANGED <<mainvars, wp, cur>>
    /\ UNCHANGED colvars
    /\ UNCHANGED rtvars

\* The macro's exit, and the return of spawn.
SpawnReturn(c) ==
    /\ sp.call[c].pc = "added"
    /\ sp' = [sp EXCEPT !.call[c] = NoCall,
                        !.intr[c] = intr_restore(sp.call[c].enable, @)]
    /\ UNCHANGED <<mainvars, wp, cur>>
    /\ UNCHANGED colvars
    /\ UNCHANGED rtvars

SpawnNext ==
    \/ \E c \in Cpus : SpawnIntrGet(c)
    \/ \E c \in Cpus : SpawnIntrOff(c)
    \/ \E c \in Cpus : SpawnTask(c)
    \/ \E c \in Cpus : SpawnReturn(c)

SpawnSpec == SpawnInit /\ [][SpawnNext]_vars

\* ------------------------------- a waker page, notifiers and one taker
\* The slots of the page that are acted on.
PageBits == {0, 1, WAKER_PAGE_SIZE - 1}

PageInit ==
    /\ InitCommon
    /\ test_mode = FALSE
    /\ slab = NewSlab
    /\ pages = <<>>
    /\ task_num = 0
    /\ keyio = NoKeyIo
    /\ sp = NoSpawns
    /\ wp = NoWakes
    /\ cur = NoCursor

\* A take that loads notified and leaves it as it is.
load_notified(page, val) == [page |-> page, old |-> page.notified]

\* AtomicU64SC::swap on notified: one atomic step.
swap_notified(page, val) ==
    [page |-> [page EXCEPT !.notified = val], old |-> page.notified]

\* notify(i) from any context: one atomic fetch_or.
PageNotify(i) ==
    /\ wp' = [wp EXCEPT !.page = notify(@, i), !.since = @ \cup {i}]
    /\ UNCHANGED <<mainvars, sp, cur>>
    /\ UNCHANGED colvars
    /\ UNCHANGED rtvars

\* mark_dropped(i) from the executor that polled slot i to Ready.
PageMarkDropped(i) ==
    /\ i \notin wp.page.dropped
    /\ wp' = [wp EXCEPT !.page = mark_dropped(@, i)]
    /\ UNCHANGED <<mainvars, sp, cur>>
    /\ UNCHANGED colvars
    /\ UNCHANGED rtvars

\* take_notified, first half: `let mut notified = self.notified.swap(0)`.
PageTakeSwap ==
    /\ wp.pc = "idle"
    /\ LET r == swap_notified(wp.page, {})
       IN  wp' = [wp EXCEPT !.page = r.page, !.pc = "swapped", !.local = r.old,
                            !.before = wp.since, !.since = {}]
    /\ UNCHANGED <<mainvars, sp, cur>>
    /\ UNCHANGED colvars
    /\ UNCHANGED rtvars

\* take_notified, second half: `notified &= !self.dropped.load(); notified`.
PageTakeMask ==
    /\ wp.pc = "swapped"
    /\ wp' = [wp EXCEPT !.pc = "idle", !.local = {},
                        !.got = wp.local \ wp.page.dropped]
    /\ UNCHANGED <<mainvars, sp, cur>>
    /\ UNCHANGED colvars
    /\ UNCHANGED rtvars

PageNext ==
    \/ \E i \in PageBits : PageNotify(i)
    \/ \E i \in PageBits : PageMarkDropped(i)
    \/ PageTakeSwap
    \/ PageTakeMask

PageSpec == PageInit /\ [][PageNext]_vars

\* ------------------------------------------------ the cursor, on its own
\* take_task is called again and again; between two calls tasks are added,
\* woken and, once a poll has returned Ready, dropped.  The collection
\* begins with its first page full but for two slots, their futures polled
\* once and nobody holding a waker of them.
CursorParked == WAKER_PAGE_SIZE - 2

CursorInit ==
    /\ InitCommon
    /\ test_mode = FALSE
    /\ keyio = NoKeyIo
    /\ sp = NoSpawns
    /\ wp = NoWakes
    /\ cur = NoCursor
    /\ slab = [used |-> 0 .. (CursorParked - 1), free |-> <<>>]
    /\ pages = <<NewPage>>
    /\ task_num = CursorParked

\* The slots whose bits the cursor holds in its snapshot, not yet yielded.
HeldSlots ==
    IF gen.pc = "yielded"
    THEN {gen.page_idx * WAKER_PAGE_SIZE + b : b \in gen.notified}
    ELSE {}

\* The resume of generator g would leave the for loop over the pages
\* without another yield: the pass the last key came from is over.
PassEnds(g, fc) ==
    \/ g.pc # "yielded"
    \/ /\ g.notified = {}
       /\ \A q \in (g.page_idx + 2) .. g.npages :
             fc.pages[q].notified \ fc.pages[q].dropped = {}

\* add_task: the new slot is notified.
CurSpawn ==
    /\ cpu = "run"
    /\ HeapUsed < HeapCapacity
    /\ LET r    == priority_add_task(Fc(slab, pages))
           slot == ToNat(unmask_priority(r.key))
       IN  /\ slab' = r.slab
           /\ pages' = r.pages
           /\ task_num' = task_num + 1
           /\ pending' = pending \cup {slot}
           /\ cur' = [cur EXCEPT !.owed = @ \cup {slot}]
    /\ spawned' = spawned + 1
    /\ UNCHANGED <<test_mode, gen, ready, wakers, keyio, sp, wp>>
    /\ UNCHANGED rtvars

\* wake_by_ref on a waker of slot.
CurWake(slot) ==
    /\ slot \in wakers
    /\ wake_by_ref(slot)
    /\ pending' = IF slot \in ready THEN pending ELSE pending \cup {slot}
    /\ cur' = IF slot \in HeldSlots
              THEN [cur EXCEPT !.owed = @ \cup {slot}, !.more = @ \cup {slot}]
              ELSE [cur EXCEPT !.owed = @ \cup {slot}]
    /\ UNCHANGED <<test_mode, slab, task_num, gen, ready, wakers, spawned,
                   keyio, sp, wp>>
    /\ UNCHANGED rtvars

\* A poll of slot, which take_task has yielded, returns Ready: drop_by_ref.
CurDrop(slot) ==
    /\ slot \in wakers /\ slot \notin ready
    /\ pages' = drop_by_ref(pages, slot)
    /\ ready' = ready \cup {slot}
    /\ pending' = pending \ {slot}
    /\ UNCHANGED <<test_mode, slab, task_num, gen, wakers, spawned, keyio, sp,
                   wp, cur>>
    /\ UNCHANGED rtvars

\* take_task: the generator is resumed; a waker is made for the slot of the
\* key it yields.
CurTake ==
    /\ cpu = "run"
    /\ LET r    == GenResume(gen, Fc(slab, pages))
           slot == SlotOf(r.out.key)
       IN  /\ gen' = r.gen
           /\ slab' = r.fc.slab
           /\ pages' = r.fc.pages
           /\ IF r.out.some
              THEN /\ wakers' = wakers \cup {slot}
                   /\ pending' = pending \ {slot}
                   /\ cur' = [last |-> r.out,
                              owed |-> IF slot \in cur.more THEN cur.owed
                                       ELSE cur.owed \ {slot},
                              more |-> cur.more \ {slot}]
              ELSE /\ cur' = [cur EXCEPT !.last = r.out]
                   /\ UNCHANGED <<wakers, pending>>
    /\ UNCHANGED <<test_mode, task_num, ready, spawned, keyio, sp, wp>>
    /\ UNCHANGED rtvars

CursorNext ==
    \/ CurSpawn
    \/ \E slot \in Slots : CurWake(slot)
    \/ \E slot \in Slots : CurDrop(slot)
    \/ CurTake

CursorSpec == CursorInit /\ [][CursorNext]_vars

\* ============================================================ properties
\* slot's dropped bit is set in its page: drop_by_ref was called and no
\* sweep has taken the bit yet.
DroppedBit(slot) ==
    /\ PageOf(slot) <= Len(pages)
    /\ BitOf(slot) \in pages[PageOf(slot)].dropped

\* The cursor holds slot's dropped bit in the snapshot it is working on.
DroppedInSnapshot(slot) ==
    /\ gen.pc = "yielded"
    /\ gen.page_idx + 1 = PageOf(slot)
    /\ BitOf(slot) \in gen.dropped

\* slot's future returned Ready, drop_by_ref was called for it, and a sweep
\* has called remove for it.
Reaped(slot) ==
    /\ slot \in ready
    /\ \A e \in ExecIds : ex[e].pc \in {"poll", "yield", "polled"} => ex[e].slot # slot
    /\ ~DroppedBit(slot)
    /\ ~DroppedInSnapshot(slot)

\* A step of handle_timeout that switches from executor e to the runtime.
TimeoutSwitch(e) ==
    /\ running = e
    /\ running' = 0
    /\ ex' = ex

\* A step that demotes executor e.
Demotion(e) == ex[e].state # "WEAK" /\ ex'[e].state = "WEAK"

\* ---- C2: once a poll of a task has returned Ready, no poll of that task
\* is started again, whenever wake_by_ref is called on a waker of the task.
C2_NoPollAfterReady ==
    [][\A e \in ExecIds :
          (ex[e].pc \notin {"poll", "yield"} /\ ex'[e].pc = "poll")
              => ex'[e].slot \notin ready]_vars

\* ---- C3: at most one poll of a task is in progress at any time, also
\* when an executor is suspended in the middle of a poll and the task is woken.
C3_OnePollInProgress ==
    \A e1, e2 \in ExecIds :
        (e1 # e2 /\ ex[e1].pc \in {"poll", "yield"} /\ ex[e2].pc \in {"poll", "yield"})
            => ex[e1].slot # ex[e2].slot

\* ---- C5: a wake_by_ref on a slot whose dropped bit is set (drop_by_ref has
\* been called for the task) does not set the slot's notified bit.
C5_WakeAfterDropIsNoOp ==
    [][\A slot \in Slots :
          (DroppedBit(slot) /\ Wake(slot))
              => pages'[PageOf(slot)].notified = pages[PageOf(slot)].notified]_vars

\* ---- C6: task_num() is the number of occupied slab slots, after any
\* sequence of add_task, take_task, completions, drop_by_ref and sweeps.
C6_TaskNumIsOccupied == task_num = Cardinality(slab.used)

\* A sweep has called remove for a completed task while another is live.
C6_Witness ==
    \E k1, k2 \in slab.used : Reaped(k1) /\ k2 \notin ready /\ k2 \in wakers

\* ---- C9: handle_timeout switches from the current executor to the runtime
\* only when that executor is inside a poll (task_id # 0).
C9_SwitchOnlyInPoll ==
    [][\A e \in ExecIds : TimeoutSwitch(e) => ex[e].task_id # 0]_vars

\* ---- C10: a timeout preemption and the demotion that follows it leave the
\* collection as it was: the preempted task's slot stays occupied, no dropped
\* or notified bit changes, and task_num is unchanged.
C10_PreemptionFrame ==
    [][\A e \in ExecIds :
          ((TimeoutSwitch(e) /\ ex[e].task_id # 0) \/ Demotion(e))
              => /\ slab' = slab
                 /\ pages' = pages
                 /\ task_num' = task_num
                 /\ ex[e].slot \in slab'.used]_vars

\* An executor demoted in the middle of a poll, its task live and its slot's
\* bits clear, with a new strong executor in its place.
C10_Witness ==
    \E e \in ExecIds :
        /\ ex[e].state = "WEAK" /\ ex[e].pc = "poll"
        /\ strong # e
        /\ ex[e].slot \in slab.used
        /\ ex[e].slot \notin ready
        /\ ~DroppedBit(ex[e].slot)
        /\ BitOf(ex[e].slot) \notin pages[PageOf(ex[e].slot)].notified

\* ---- C8: unpack_key(pack_key(p, pg, sl)) = (p, pg, sl) for every priority
\* p < 32, page index pg < 2^52 and slot index sl < 64.
C8_RoundTrip ==
    keyio.done => keyio.out = <<keyio.p, keyio.pg, keyio.sl>>

\* Slots of the first page a run from an empty collection can fill.
FreshSlots == 0 .. (HeapCapacity - 1)

\* ---- C1: when a poll never returns and the timer has had its executor
\* demoted, every other task that is notified is polled in the end: no step
\* leaves the CPU spinning for ever while such a task waits for its poll.
C1_StuckPollStarvesNoTask ==
    [][\A e \in ExecIds, k \in FreshSlots :
          (/\ ex[e].state = "WEAK" /\ ex[e].pc = "poll"
           /\ k \in pending /\ k # ex[e].slot)
              => cpu' # "spin"]_vars

\* ---- C4: as long as executors keep calling take_task, a live task that is
\* spawned or woken (also by itself, during a poll that returns Pending) is
\* polled afterwards.
C4_WakeLeadsToPoll ==
    ([]<><<\E e \in ExecIds : TakeTask(e)>>_vars)
        => \A k \in FreshSlots : (k \in pending) ~> (k \notin pending)

\* A poll that returned Pending after its task was woken during it.
C4_Witness ==
    \E e \in ExecIds :
        /\ ex[e].pc = "polled" /\ ex[e].ret = "Pending"
        /\ ex[e].slot \in pending
        /\ BitOf(ex[e].slot) \in pages[PageOf(ex[e].slot)].notified

\* ---- C7: in the test build, when the tasks spawned are finitely many and
\* each of them returns Ready in the end, task_num() comes to 0 and
\* run_until_idle returns.
C7_DrainsAndReturns ==
    (\A k \in FreshSlots : [](k \in slab.used => <>(k \in ready)))
        => <>(task_num = 0 /\ rtpc = "returned")

\* ---- C11: the runtime has exactly one strong executor at any time; it is
\* neither WEAK nor KILLED nor in the weak list, and no executor is in the
\* weak list twice.
C11_OneStrongExecutor ==
    /\ strong \in ExecIds
    /\ {h \in ExecIds : ex[h].state = "UNUSED"} = {strong}
    /\ \A i \in 1 .. Len(weak) : weak[i] # strong
    /\ \A i, j \in 1 .. Len(weak) : i # j => weak[i] # weak[j]

\* Two executors have been demoted, one of them is KILLED, and a third is
\* the strong executor.
C11_Witness ==
    /\ Len(weak) = 2
    /\ \E i \in 1 .. Len(weak) : killed(weak[i])
    /\ ex[strong].state = "UNUSED"

\* ---- C12: a demoted (WEAK) executor, once resumed, finishes the poll it
\* was preempted in and no other: it never calls take_task, and when its poll
\* is over it becomes KILLED and switches back to the runtime, for good.
C12_WeakFinishesOnlyItsPoll ==
    [][\A e \in ExecIds :
          /\ ex[e].state = "WEAK" =>
                /\ ex[e].pc \in {"poll", "yield", "polled"}
                /\ \/ ex'[e] = ex[e]
                   \/ /\ running = e /\ ex[e].pc \in {"poll", "yield"}
                      /\ ex'[e].pc \in {"poll", "yield", "polled"}
                      /\ ex'[e].state = "WEAK"
                      /\ ex'[e].slot = ex[e].slot /\ ex'[e].task_id = ex[e].task_id
                   \/ /\ running = e /\ ex[e].pc = "polled"
                      /\ ex'[e].state = "KILLED" /\ ex'[e].pc = "dead"
                      /\ running' = 0
          /\ killed(e) => (running' # e /\ ex'[e] \in {ex[e], NoExec})]_vars

\* A weak executor the runtime resumed has finished its poll and is KILLED;
\* control is back in the runtime.
C12_Witness ==
    \E e \in ExecIds :
        /\ killed(e) /\ current = e /\ running = 0
        /\ \E i \in 1 .. Len(weak) : weak[i] = e

\* ---- C13: run_until_idle returns only in the test build, and only when
\* task_num() is 0 as control is back on the runtime's stack; in the other
\* build it never returns.
C13_ReturnsOnlyIdleInTest ==
    [][(rtpc' = "returned" /\ rtpc # "returned")
          => /\ test_mode
             /\ task_num = 0
             /\ running = 0 /\ rtpc = "strong_wait"]_vars

\* run_until_idle has returned.
C13_Witness == rtpc = "returned" /\ test_mode /\ task_num = 0

\* A step in which executor e gives the CPU to the runtime of its own accord:
\* sched_yield called inside a poll, or by the idle loop.
VoluntaryYield(e) ==
    /\ running = e /\ running' = 0
    /\ \/ ex[e].pc = "poll" /\ ex'[e].pc = "yield"
       \/ ex[e].pc = "idle_locked" /\ ex'[e].pc = "take"

\* ---- C20: when the strong executor yields of its own accord, from inside
\* a poll or from its idle loop, its task_id is 0, and the runtime does not
\* demote it while it is suspended in the yield.
C20_YieldKeepsStrong ==
    [][\A e \in ExecIds :
          /\ (VoluntaryYield(e) /\ e = strong) => ex[e].task_id = 0
          /\ (ex[e].pc = "yield" /\ e = strong) => ex'[e].state # "WEAK"]_vars

\* A step in which executor e, its poll having returned Ready, calls
\* drop_by_ref (executor.rs:116).
CallsDropByRef(e) ==
    /\ running = e
    /\ ex[e].pc = "polled" /\ ex[e].ret = "Ready"
    /\ ex'[e].pc # "polled"

\* ---- C16: mark_dropped is executed once for a task: no drop_by_ref is
\* called for a slot whose dropped bit is already set or already held in the
\* cursor's dropped snapshot.
C16_MarkDroppedOnce ==
    [][\A e \in ExecIds :
          CallsDropByRef(e)
              => /\ ~DroppedBit(ex[e].slot)
                 /\ ~DroppedInSnapshot(ex[e].slot)]_vars

\* A take_task of executor e in which the cursor calls take_notified (it has
\* no bit left of an earlier snapshot) and yields a key.
TakesNotified(e) ==
    /\ running = e
    /\ ex[e].pc = "take" /\ ex'[e].pc = "poll"
    /\ ~(gen.pc = "yielded" /\ gen.notified # {})

\* ---- C17: the value take_notified returns holds no bit of a slot that is
\* being polled at the time of the call: neither the key the cursor yields
\* from it nor the bits it keeps for later are of such a slot.
C17_TakeNotifiedMasksBorrowed ==
    [][\A e, f \in ExecIds :
          (/\ TakesNotified(e)
           /\ f # e /\ ex[f].pc \in {"poll", "yield"}
           /\ PageOf(ex[f].slot) = gen'.page_idx + 1)
              => /\ ex'[e].slot # ex[f].slot
                 /\ BitOf(ex[f].slot) \notin gen'.notified]_vars

\* slot is marked dropped: in its page, or in the snapshot the cursor took.
MarkedDropped(slot) == DroppedBit(slot) \/ DroppedInSnapshot(slot)

\* ---- C18: a sweep that clears the dropped mark of slots frees their slab
\* entries and takes one off task_num for each of them.
C18_SweepReapsDropped ==
    [][LET swept == {slot \in Slots : MarkedDropped(slot) /\ ~MarkedDropped(slot)'}
       IN  swept # {}
              => /\ swept \cap slab'.used = {}
                 /\ task_num' = task_num - Cardinality(swept)]_vars

\* ---- C19: when control is back in run_until_idle and the strong executor
\* has task_id # 0, the runtime marks it WEAK, appends it to the weak list as
\* it is (no sweep of the list), makes a newly created executor with
\* task_id 0 the strong executor and switches to it.
C19_DemotionInstallsNewStrong ==
    [][(/\ cpu = "run" /\ running = 0 /\ rtpc = "strong_wait"
        /\ is_running_future(strong)
        /\ HeapUsed < HeapCapacity
        /\ <<ex, strong, weak, current, running>>' # <<ex, strong, weak, current, running>>)
          => /\ ex'[strong].state = "WEAK"
             /\ ex'[strong].task_id = ex[strong].task_id
             /\ weak' = Append(weak, strong)
             /\ strong' # strong
             /\ ex[strong'] = NoExec
             /\ ex'[strong'].state = "UNUSED" /\ ex'[strong'].task_id = 0
             /\ current' = strong' /\ running' = strong'
             /\ rtpc' = "strong_wait"]_vars

\* A demotion has just happened with a killed executor still in the weak
\* list: the new strong executor has the CPU and has not called take_task.
C19_Witness ==
    /\ Len(weak) = 2
    /\ killed(weak[1])
    /\ ex[weak[2]].state = "WEAK" /\ is_running_future(weak[2])
    /\ running = strong /\ ex[strong].pc = "take" /\ ex[strong].task_id = 0
    /\ rtpc = "strong_wait"

\* ---- C14: a call of spawn changes the task collection of the calling
\* CPU's runtime only, by one task, with the CPU's interrupts off; when it
\* returns it has added exactly one task and the CPU's interrupt enable is
\* what it was when spawn was called.
C14_SpawnFrame ==
    [][\A c \in Cpus :
          /\ sp'.rt[c] # sp.rt[c] =>
                /\ sp.call[c].pc = "off" /\ sp'.call[c].pc = "added"
                /\ ~sp.intr[c] /\ ~sp'.intr[c]
                /\ sp.rt[c].slab.used \subseteq sp'.rt[c].slab.used
                /\ Cardinality(sp'.rt[c].slab.used) = Cardinality(sp.rt[c].slab.used) + 1
                /\ sp'.rt[c].task_num = sp.rt[c].task_num + 1
                /\ \A d \in Cpus \ {c} : sp'.rt[d] = sp.rt[d]
          /\ (sp.call[c].pc = "added" /\ sp'.call[c].pc = "idle") =>
                /\ sp'.intr[c] = sp.call[c].before
                /\ sp.rt[c].task_num = sp.call[c].base + 1
                /\ sp'.rt = sp.rt]_vars

\* spawn has returned on a CPU whose interrupts were on and on one whose
\* interrupts were off, while a third CPU is inside its call.
C14_Witness ==
    \E c, d, e \in Cpus :
        /\ sp.call[c].pc = "idle" /\ sp.rt[c].task_num = 1 /\ sp.intr[c]
        /\ sp.call[d].pc = "idle" /\ sp.rt[d].task_num = 1 /\ ~sp.intr[d]
        /\ sp.call[e].pc = "added" /\ sp.rt[e].task_num = 2

\* ---- C15: however notify calls interleave with take_notified, no wake of
\* a slot that is not dropped is lost: a bit notified before the swap is in
\* the value take_notified returns, a bit notified after it stays in
\* notified for the next take_notified; and with no notify since the swap,
\* notified is 0.
C15_NoLostWakeup ==
    /\ wp.since \subseteq wp.page.notified
    /\ wp.pc = "swapped" => wp.before \subseteq wp.local
    /\ wp.pc = "idle" => (wp.before \ wp.page.dropped) \subseteq wp.got
    /\ wp.since = {} => wp.page.notified = {}

\* take_notified has returned a slot's bit, the slot was notified again
\* after the swap and its bit waits in notified; another slot is dropped.
C15_Witness ==
    /\ wp.pc = "idle"
    /\ \E i, j \in PageBits :
          /\ i \in wp.got /\ i \in wp.since /\ i \in wp.page.notified
          /\ i \notin wp.page.dropped
          /\ j \in wp.page.dropped /\ j \in wp.before /\ j \notin wp.got

\* A step of run_until_idle that begins a sweep of the weak list: control is
\* back from the strong executor, which is between polls.
SweepStart ==
    /\ cpu = "run" /\ running = 0 /\ rtpc = "strong_wait"
    /\ ~(test_mode /\ task_num = 0)
    /\ ~is_running_future(strong)
    /\ weak # <<>>
    /\ <<current, running>>' # <<current, running>>

\* ---- C21: the runtime never switches to a KILLED executor, and the step
\* that begins a weak sweep takes every KILLED executor off the weak list
\* (and nothing else).
C21_KilledNeverRun ==
    [][/\ \A e \in ExecIds :
             (running # e /\ running' = e)
                 => (ex[e].state # "KILLED" /\ ex'[e].state # "KILLED")
       /\ SweepStart
             => /\ weak' = SelectSeq(weak, LAMBDA h : ex[h].state # "KILLED")
                /\ \A i \in 1 .. Len(weak') : ex'[weak'[i]].state = "WEAK"]_vars

\* A sweep has begun with a KILLED executor first in the list: it is gone,
\* its handle is free again, and the executor that was behind it runs.
C21_Witness ==
    /\ rtpc = "weak_wait" /\ rtidx = 1
    /\ Len(weak) = 1 /\ running = weak[1]
    /\ \E h \in ExecIds : h < weak[1] /\ ex[h] = NoExec

\* ---- C22: an executor demoted to weak is resumed by the runtime in the
\* end, also when the strong executor always finds a task to poll (as long
\* as the CPU is neither spinning nor stopped by a panic).
C22_WeakIsResumed ==
    ([](cpu = "run"))
        => \A e \in ExecIds : [](ex[e].state = "WEAK" => <>(running = e))

\* A step that is a call of spawn, and so of add_task.
AddsTask == spawned' = spawned + 1

\* ---- C23: add_task takes the slab index i; afterwards the page vector,
\* of which nothing was removed, has more than i/64 pages, bit i%64 of page
\* i/64 is set in notified and clear in dropped, task_num is one more, and
\* the key returned unpacks to (DEFAULT_PRIORITY, i/64, i%64).  take_task
\* does not return None while a task added has never been yielded.
C23_AddTask ==
    [][/\ AddsTask =>
             LET i == SlabNextKey(slab)
                 k == priority_add_task(Fc(slab, pages)).key
             IN  /\ slab'.used = slab.used \cup {i} /\ i \notin slab.used
                 /\ Len(pages') > i \div WAKER_PAGE_SIZE
                 /\ Len(pages') >= Len(pages)
                 /\ \A p \in 1 .. Len(pages) :
                       p # (i \div WAKER_PAGE_SIZE) + 1 => pages'[p] = pages[p]
                 /\ (i % WAKER_PAGE_SIZE) \in pages'[(i \div WAKER_PAGE_SIZE) + 1].notified
                 /\ (i % WAKER_PAGE_SIZE) \notin pages'[(i \div WAKER_PAGE_SIZE) + 1].dropped
                 /\ task_num' = task_num + 1
                 /\ unpack_key(k) = [priority    |-> ToWord(DEFAULT_PRIORITY),
                                     page_idx    |-> ToWord(i \div WAKER_PAGE_SIZE),
                                     subpage_idx |-> ToWord(i % WAKER_PAGE_SIZE)]
       /\ \A e \in ExecIds :
             (ex[e].pc = "take" /\ ex'[e].pc = "idle_locked")
                 => pending \ wakers = {}]_vars

\* take_task has returned None after yielding a task added to a second
\* page, which add_task appended.
C23_Witness ==
    /\ Len(pages) = 2
    /\ WAKER_PAGE_SIZE \in slab.used /\ WAKER_PAGE_SIZE \in wakers
    /\ \E e \in ExecIds : ex[e].pc = "idle_locked"

\* A step in which executor e, whose take_task returned None, leaves the
\* idle branch of run().
LeavesIdle(e) ==
    /\ running = e
    /\ ex[e].pc = "idle_locked" /\ ex'[e].pc # "idle_locked"

\* ---- C27: after take_task returned None the executor switches to the
\* runtime exactly when (test mode is on and task_num is 0) or the weak list
\* is not empty; otherwise it waits for an interrupt and calls take_task
\* again, on its own stack.
C27_IdleBranch ==
    [][\A e \in ExecIds :
          LeavesIdle(e) =>
              /\ running' = 0 <=> ((test_mode /\ task_num = 0) \/ Len(weak) # 0)
              /\ running' \in {0, e}
              /\ ex'[e].pc = "take"
              /\ current' = current /\ weak' = weak /\ strong' = strong]_vars

\* The strong executor, its take_task having returned None with tasks in
\* the collection and a weak executor in the list, has left the idle branch
\* and the runtime has the CPU.
C27_Witness ==
    /\ gen.pc = "none" /\ task_num > 0 /\ Len(weak) > 0
    /\ running = 0 /\ current = strong /\ rtpc = "strong_wait"
    /\ ex[strong].pc = "take" /\ ex[strong].task_id = 0
    /\ lock = 0

\* ---- C28: handle_timeout never runs while the context it interrupts
\* holds the runtime lock: the CPU never spins in sched_yield on a lock
\* held by the executor the interrupt came in on.
C28_NoSpinOnOwnLock == ~(cpu = "spin" /\ lock # 0 /\ lock = running)

\* ---- C30: a task whose poll returned Pending is polled again only if it
\* was woken after that poll began: no poll of a live task begins without a
\* spawn or wake of the task since its last poll began.
C30_PollOnlyWhenNotified ==
    [][\A e \in ExecIds :
          (ex[e].pc = "take" /\ ex'[e].pc = "poll" /\ ex'[e].slot \notin ready)
              => ex'[e].slot \in pending]_vars

\* Key k1 is before key k2 in (page index, slot index).
KeyBefore(k1, k2) ==
    LET a == unpack_key(k1)
        b == unpack_key(k2)
    IN  \/ ToNat(a.page_idx) < ToNat(b.page_idx)
        \/ /\ ToNat(a.page_idx) = ToNat(b.page_idx)
           /\ ToNat(a.subpage_idx) < ToNat(b.subpage_idx)

\* ---- C24: within one pass of the cursor over the pages, each key
\* take_task returns is after the key it returned before, in (page index,
\* slot index).
C24_KeysAscendInSweep ==
    [][(/\ CurTake
        /\ cur.last.some /\ cur'.last.some
        /\ ~PassEnds(gen, Fc(slab, pages)))
          => KeyBefore(cur.last.key, cur'.last.key)]_vars

\* A pass has yielded the two slots of the first page and has gone on to
\* yield the first slot of the second page.
C24_Witness ==
    /\ gen.pc = "yielded" /\ gen.page_idx = 1
    /\ cur.last = SomeKey(TaskKey(1, 0))
    /\ {CursorParked, CursorParked + 1} \subseteq wakers
    /\ cur.owed = {}

\* ---- C25: take_task returns a live slot only when a notification of the
\* slot is owed, and each return uses one up: notifications made before the
\* snapshot of the slot's page count as one, and so do those made after it.
C25_DeliveredOncePerSnapshot ==
    [][\A slot \in Slots :
          (/\ CurTake
           /\ cur'.last.some /\ SlotOf(cur'.last.key) = slot
           /\ slot \notin ready)
              => /\ slot \in cur.owed
                 /\ slot \in cur.more \/ slot \notin cur'.owed]_vars

\* A slot notified again after it went into the snapshot has been returned
\* once and is owed once more; another slot has been returned and is owed
\* nothing, with no bit left in notified.
C25_Witness ==
    \E s, t \in Slots :
        /\ s # t /\ {s, t} \subseteq wakers /\ {s, t} \cap ready = {}
        /\ cur.last.some /\ SlotOf(cur.last.key) = s
        /\ s \in cur.owed /\ s \notin cur.more
        /\ BitOf(s) \in pages[PageOf(s)].notified
        /\ t \notin cur.owed
        /\ BitOf(t) \notin pages[PageOf(t)].notified

\* ---- C26: take_task returns None only at the end of a pass that began at
\* page 0, took the notified and dropped bits of every page and found no
\* live slot notified; no live slot is owed a notification when it does.
C26_NoneOnlyWhenNothingOwed ==
    [][(CurTake /\ ~cur'.last.some)
          => /\ cur.owed \ ready = {}
             /\ gen'.pc = "none"
             /\ \A q \in 1 .. Len(pages') : pages'[q] = NewPage]_vars

\* take_task has returned None after slots of both pages were returned.
C26_Witness ==
    /\ gen.pc = "none" /\ ~cur.last.some
    /\ Len(pages) = 2
    /\ {CursorParked, WAKER_PAGE_SIZE} \subseteq wakers
    /\ ready # {}

\* ---- C29: as long as take_task keeps being called, the first slot of the
\* second page, when it is live and owed a notification, is returned by
\* take_task in the end, however often slots of the first page are
\* notified again in the meantime.
C29_HighPageNotStarved ==
    ([]<><<CurTake>>_vars)
        => ((WAKER_PAGE_SIZE \in cur.owed /\ cur.last # SomeKey(TaskKey(1, 0)))
               ~> (cur.last = SomeKey(TaskKey(1, 0)) \/ WAKER_PAGE_SIZE \in ready))

\* The first slot of the second page has been returned while a slot of the
\* first page, returned before, is owed a notification again.
C29_Witness ==
    /\ cur.last = SomeKey(TaskKey(1, 0))
    /\ CursorParked \in wakers /\ CursorParked \in cur.owed
    /\ BitOf(CursorParked) \in pages[1].notified
    /\ WAKER_PAGE_SIZE \notin cur.owed

\* ---- C31: whenever the cursor yields a key to take_task, the slab entry
\* the key names is occupied, so get_pin_mut(..).unwrap() does not panic and
\* the poll of that entry starts: also for a key that a wake on a stale
\* waker has left behind a slot whose future is done and which a sweep has
\* called remove for.
C31_LookupNeverFails ==
    [][\A e \in ExecIds :
          (TakeTask(e) /\ gen'.pc = "yielded")
              => /\ cpu' = "run"
                 /\ ex'[e].pc = "poll"
                 /\ ex'[e].slot \in slab'.used
                 /\ ex'[e].slot = SlotOf(TaskKey(gen'.page_idx,
                                                 ex'[e].slot % WAKER_PAGE_SIZE))]_vars

\* take_task has looked up the key of a slot whose future is done and whose
\* dropped mark a sweep has taken: the key comes from a wake on a stale waker.
C31_Witness ==
    \E e \in ExecIds :
        /\ ex[e].pc = "poll"
        /\ ex[e].slot \in ready
        /\ ~MarkedDropped(ex[e].slot)
        /\ ex[e].slot \in slab.used

====
